---- MODULE Spec2Model ----
\* Request-handling contract of the Product resource (routes/products.js):
\* the five handlers, the bearer gate in front of the mutating ones, and the
\* entity store they call.  Every await of a handler is one atomic step, so two
\* requests interleave exactly where the code awaits the store.
EXTENDS Integers, Sequences, FiniteSets, TLC

VARIABLES store, nextId, slot, resp, first

vars == <<store, nextId, slot, resp, first>>

\* ---------------------------------------------------------------- bounds
\* Products ever created while requests interleave (identifiers are never
\* reused).
MaxIds == 1

\* ------------------------------------------------------ fields and values
\* The five `if (!x) missingFields.push('x')` lines, in their order.
requiredFields == <<"name", "category", "description", "image", "fullDescription">>

\* The literal array of the PUT handler, in its order.
allowedUpdates ==
  <<"name", "category", "description", "image", "brand", "rating",
    "fullDescription", "features", "applications", "specifications">>

SpecKeys == {"presentation", "coverage", "dryingTime", "colors"}

Range(s) == {s[i] : i \in DOMAIN s}

StringFields == Range(requiredFields) \cup {"brand"}

\* brand: brand || 'Fester'
DefaultBrand == "Fester"
\* rating: rating || 5
DefaultRating == 5
\* specifications: specifications || { presentation: '', ... }
DefaultSpecifications == [k \in SpecKeys |-> ""]

\* JavaScript truthiness of a value held by field f: '' and 0 are falsy,
\* arrays and objects (also empty ones) are truthy.
Truthy(f, v) ==
  IF f \in StringFields THEN v # ""
  ELSE IF f = "rating" THEN v # 0
  ELSE TRUE

\* req.body[f] is not undefined.
Has(body, f) == f \in DOMAIN body

\* !x for a destructured field x of req.body.
Falsy(body, f) == ~Has(body, f) \/ ~Truthy(f, body[f])

\* x || d
OrDefault(body, f, d) == IF Falsy(body, f) THEN d ELSE body[f]

EmptyBody == [k \in {} |-> ""]

NoDoc == [id |-> 0]

\* ----------------------------------------------------------- entity store
\* The schema of the entity (models/Product): what it rejects and how it
\* shapes what is persisted.

\* A schema whose required strings are not validated.
SchemaErrorsNone(doc) == <<>>

\* Paths the schema's validation rejects: a required string that is empty.
SchemaErrors(doc) ==
  SelectSeq(requiredFields, LAMBDA f : doc[f] = "")

\* A schema that persists a specifications record as it was given.
SchemaCastIdentity(f, v) == v

\* The value persisted for path f: a specifications record always carries its
\* four keys, an absent one as the empty string.
SchemaCast(f, v) ==
  IF f = "specifications"
  THEN [k \in SpecKeys |-> IF k \in DOMAIN v THEN v[k] ELSE ""]
  ELSE v

DocFields == Range(allowedUpdates) \cup {"id", "createdAt"}

Persisted(doc) == [f \in DocFields |-> SchemaCast(f, doc[f])]

\* The store's id-format check (findById casts the id before any access).
BadId == 0
WellFormed(id) == id # BadId

Exists(id) == id \in DOMAIN store

\* insert: the document gets the next identifier and the insertion time.
Insert(id, fieldsOf) ==
  Persisted([f \in DocFields |->
     IF f = "id" THEN id
     ELSE IF f = "createdAt" THEN id
     ELSE fieldsOf[f]])

\* save() of a loaded document writes the paths whose value it changed.
ModifiedPaths(loaded, doc) ==
  {f \in DocFields : SchemaCast(f, doc[f]) # loaded[f]}

SaveLoaded(loaded, doc, current) ==
  [f \in DocFields |->
     IF f \in ModifiedPaths(loaded, doc) THEN SchemaCast(f, doc[f]) ELSE current[f]]

\* The sort with the sign of its key flipped: sort({ createdAt: 1 }).
RECURSIVE SortByCreatedAtAsc(_)
SortByCreatedAtAsc(ids) ==
  IF ids = {} THEN <<>>
  ELSE LET oldest == CHOOSE i \in ids : \A j \in ids : store[i]["createdAt"] <= store[j]["createdAt"]
       IN <<store[oldest]>> \o SortByCreatedAtAsc(ids \ {oldest})

\* find().sort({ createdAt: -1 })
RECURSIVE SortByCreatedAtDesc(_)
SortByCreatedAtDesc(ids) ==
  IF ids = {} THEN <<>>
  ELSE LET newest == CHOOSE i \in ids : \A j \in ids : store[j]["createdAt"] <= store[i]["createdAt"]
       IN <<store[newest]>> \o SortByCreatedAtDesc(ids \ {newest})

\* findById(id): the cast of a malformed id throws before the store is
\* reached; otherwise the store fails, or answers the document or null.
FindByIdResults(id) ==
  IF ~WellFormed(id) THEN {[err |-> "CastError", product |-> NoDoc]}
  ELSE {[err |-> "StoreError", product |-> NoDoc],
        [err |-> "none", product |-> IF Exists(id) THEN store[id] ELSE NoDoc]}

\* What the store can do with a write: accept it, fail, or report a
\* uniqueness violation (code 11000).
SaveOutcomes == {"none", "StoreError", "DuplicateKey"}
DeleteOutcomes == {"none", "StoreError"}
FindOutcomes == {"none", "StoreError"}

\* ------------------------------------------------------------ credentials
\* What the Authorization header holds: no `Bearer <token>` (absent or
\* malformed), a token that fails verification, or a token that passes.
Creds == {"absent", "invalid", "valid"}

\* The bearer gate (middleware/auth).
authenticateToken(cred) ==
  CASE cred = "absent" -> [status |-> 401, error |-> "Unauthenticated"]
    [] cred = "invalid" -> [status |-> 403, error |-> "InvalidCredential"]
    [] OTHER -> [status |-> 0, error |-> "none"]

\* The delete route registered without the gate.
ProtectedExceptDelete(method) == method \in {"POST", "PUT"}

\* The routes registered with authenticateToken in front of the handler.
Protected(method) == method \in {"POST", "PUT", "DELETE"}

\* -------------------------------------------------------------- responses
NoResp == [method |-> "none"]

Response(method, id, cred, body, ops, status, error) ==
  [method |-> method, id |-> id, cred |-> cred, body |-> body, ops |-> ops,
   status |-> status, error |-> error,
   missingFields |-> <<>>, validationErrors |-> <<>>, updatedFields |-> <<>>,
   data |-> NoDoc, list |-> <<>>, count |-> 0, loaded |-> NoDoc,
   persisted |-> NoDoc, present |-> FALSE, thrown |-> "none", echo |-> BadId]

\* The rejection the gate sends; the handler never runs.
Rejected(method, cred) ==
  Response(method, BadId, cred, EmptyBody, <<>>,
           authenticateToken(cred).status, authenticateToken(cred).error)

Blocked(method, cred) == Protected(method) /\ authenticateToken(cred).status # 0

\* The catch blocks: the error a store call threw, to status and error kind.
getCatch(err) ==
  IF err = "CastError" THEN [status |-> 400, error |-> "MalformedIdentifier"]
  ELSE [status |-> 500, error |-> "StoreFailure"]

postCatch(err) ==
  IF err = "ValidationError" THEN [status |-> 400, error |-> "ValidationError"]
  ELSE IF err = "DuplicateKey" THEN [status |-> 400, error |-> "DuplicateEntity"]
  ELSE [status |-> 500, error |-> "StoreFailure"]

putCatch(err) ==
  IF err = "CastError" THEN [status |-> 400, error |-> "MalformedIdentifier"]
  ELSE IF err = "ValidationError" THEN [status |-> 400, error |-> "ValidationError"]
  ELSE [status |-> 500, error |-> "StoreFailure"]

\* A catch block of delete without its `error.kind === 'ObjectId'` branch.
deleteCatchNoCast(err) == [status |-> 500, error |-> "StoreFailure"]

deleteCatch(err) ==
  IF err = "CastError" THEN [status |-> 400, error |-> "MalformedIdentifier"]
  ELSE [status |-> 500, error |-> "StoreFailure"]

\* ------------------------------------------------------------------ state
Slots == {1, 2}

IdleSlot ==
  [pc |-> "idle", method |-> "none", id |-> BadId, cred |-> "absent",
   body |-> EmptyBody, product |-> NoDoc]

Init ==
  /\ store = [i \in {} |-> NoDoc]
  /\ nextId = 1
  /\ slot = [s \in Slots |-> IdleSlot]
  /\ resp = NoResp
  /\ first = NoResp

\* ------------------------------------------------------------- handlers
\* GET / : find().sort({ createdAt: -1 }), then the list envelope.
List(cred) ==
  /\ resp = NoResp
  /\ \E outcome \in FindOutcomes :
       resp' =
         IF Blocked("LIST", cred) THEN Rejected("LIST", cred)
         ELSE IF outcome # "none"
         THEN [Response("LIST", BadId, cred, EmptyBody, <<"find">>, 500, "StoreFailure")
                 EXCEPT !.thrown = outcome]
         ELSE LET products == SortByCreatedAtDesc(DOMAIN store)
              IN [Response("LIST", BadId, cred, EmptyBody, <<"find">>, 200, "none")
                    EXCEPT !.list = products, !.count = Len(products)]
  /\ UNCHANGED <<store, nextId, slot, first>>

\* The not-found branch answering with the status of the malformed-id branch.
NotFoundAsBadRequest(method, id, cred, body) ==
  [Response(method, id, cred, body, <<"findById">>, 400, "MalformedIdentifier")
     EXCEPT !.echo = id]

\* if (!product) return res.status(404).json({ ..., id: req.params.id })
NotFound(method, id, cred, body) ==
  [Response(method, id, cred, body, <<"findById">>, 404, "NotFound") EXCEPT !.echo = id]

\* GET /:id
Get(id, cred) ==
  /\ resp = NoResp
  /\ \E r \in FindByIdResults(id) :
       resp' =
         IF Blocked("GET", cred) THEN Rejected("GET", cred)
         ELSE IF r.err # "none"
         THEN [Response("GET", id, cred, EmptyBody, <<"findById">>,
                        getCatch(r.err).status, getCatch(r.err).error)
                 EXCEPT !.thrown = r.err, !.echo = IF getCatch(r.err).status = 400 THEN id ELSE BadId]
         ELSE IF r.product = NoDoc
         THEN NotFound("GET", id, cred, EmptyBody)
         ELSE [Response("GET", id, cred, EmptyBody, <<"findById">>, 200, "none")
                 EXCEPT !.data = r.product]
  /\ UNCHANGED <<store, nextId, slot, first>>

\* The required-field check testing presence (=== undefined) instead of
\* truthiness.
MissingFieldsAbsentOnly(body) == SelectSeq(requiredFields, LAMBDA f : ~Has(body, f))

\* The missingFields array of the POST handler.
MissingFields(body) == SelectSeq(requiredFields, LAMBDA f : Falsy(body, f))

\* new Product({ ... }) of the POST handler.
NewProduct(body) ==
  [f \in Range(allowedUpdates) |->
     CASE f = "brand" -> OrDefault(body, f, DefaultBrand)
       [] f = "rating" -> OrDefault(body, f, DefaultRating)
       [] f = "features" -> OrDefault(body, f, <<>>)
       [] f = "applications" -> OrDefault(body, f, <<>>)
       [] f = "specifications" -> OrDefault(body, f, DefaultSpecifications)
       [] OTHER -> body[f]]

\* POST / : gate, required-field check, new Product, save.
Post(cred, body, maxIds) ==
  /\ resp = NoResp
  /\ IF Blocked("POST", cred)
     THEN /\ resp' = Rejected("POST", cred)
          /\ UNCHANGED <<store, nextId>>
     ELSE IF MissingFields(body) # <<>>
     THEN /\ resp' = [Response("POST", BadId, cred, body, <<>>, 400, "MissingFields")
                        EXCEPT !.missingFields = MissingFields(body)]
          /\ UNCHANGED <<store, nextId>>
     ELSE IF SchemaErrors(NewProduct(body)) # <<>>
     THEN /\ resp' = [Response("POST", BadId, cred, body, <<"save">>,
                               postCatch("ValidationError").status,
                               postCatch("ValidationError").error)
                        EXCEPT !.validationErrors = SchemaErrors(NewProduct(body)),
                               !.thrown = "ValidationError"]
          /\ UNCHANGED <<store, nextId>>
     ELSE /\ nextId <= maxIds
          /\ \E outcome \in SaveOutcomes :
               IF outcome # "none"
               THEN /\ resp' = [Response("POST", BadId, cred, body, <<"save">>,
                                         postCatch(outcome).status, postCatch(outcome).error)
                                  EXCEPT !.thrown = outcome]
                    /\ UNCHANGED <<store, nextId>>
               ELSE LET savedProduct == Insert(nextId, NewProduct(body))
                    IN /\ store' = [i \in DOMAIN store \cup {nextId} |->
                                      IF i = nextId THEN savedProduct ELSE store[i]]
                       /\ nextId' = nextId + 1
                       /\ resp' = [Response("POST", BadId, cred, body, <<"save">>, 201, "none")
                                     EXCEPT !.data = savedProduct, !.persisted = savedProduct]
  /\ UNCHANGED <<slot, first>>

\* The catch block of the handler of a method.
catchOf(method, err) ==
  IF method = "PUT" THEN putCatch(err) ELSE deleteCatch(err)

\* PUT /:id and DELETE /:id up to the first await: gate, findById, 404.
LoadStep(s, method, id, cred, body) ==
  /\ slot[s].pc = "idle"
  /\ IF Blocked(method, cred)
     THEN /\ resp = NoResp
          /\ resp' = Rejected(method, cred)
          /\ UNCHANGED slot
     ELSE \E r \in FindByIdResults(id) :
       IF r.err # "none"
       THEN /\ resp = NoResp
            /\ resp' = [Response(method, id, cred, body, <<"findById">>,
                                 catchOf(method, r.err).status, catchOf(method, r.err).error)
                          EXCEPT !.thrown = r.err,
                                 !.echo = IF catchOf(method, r.err).status = 400 THEN id ELSE BadId]
            /\ UNCHANGED slot
       ELSE IF r.product = NoDoc
       THEN /\ resp = NoResp
            /\ resp' = NotFound(method, id, cred, body)
            /\ UNCHANGED slot
       ELSE /\ slot' = [slot EXCEPT ![s] =
                          [pc |-> "loaded", method |-> method, id |-> id, cred |-> cred,
                           body |-> body, product |-> r.product]]
            /\ UNCHANGED resp
  /\ UNCHANGED <<store, nextId, first>>

\* The loop running over the keys of req.body instead of the allow-list.
ApplyUpdatesAnyKey(product, body) ==
  [f \in DOMAIN product |-> IF Has(body, f) THEN body[f] ELSE product[f]]

\* The loop pushing onto the features array instead of assigning it.
ApplyUpdatesAppend(product, body) ==
  [f \in DOMAIN product |->
     IF f \in Range(allowedUpdates) /\ Has(body, f)
     THEN IF f = "features" THEN product[f] \o body[f] ELSE body[f]
     ELSE product[f]]

\* The forEach over allowedUpdates: product[field] = req.body[field].
ApplyUpdates(product, body) ==
  [f \in DOMAIN product |->
     IF f \in Range(allowedUpdates) /\ Has(body, f) THEN body[f] ELSE product[f]]

\* updatedFields.push(field) of the same loop.
UpdatedFields(body) == SelectSeq(allowedUpdates, LAMBDA f : Has(body, f))

Put(s, id, cred, body) ==
  /\ first = NoResp
  /\ LoadStep(s, "PUT", id, cred, body)

\* An update that reads the product again when it writes, and applies the
\* payload to what the store holds then instead of to the product it loaded.
PutSaveReloading(s) ==
  /\ slot[s].pc = "loaded" /\ slot[s].method = "PUT"
  /\ resp = NoResp
  /\ LET r == slot[s]
         current == IF Exists(r.id) THEN store[r.id] ELSE r.product
         product == ApplyUpdates(current, r.body)
         ops == <<"findById", "save">>
         base(status, error) ==
           [Response("PUT", r.id, r.cred, r.body, ops, status, error)
              EXCEPT !.loaded = r.product, !.present = Exists(r.id)]
     IN IF SchemaErrors(product) # <<>>
        THEN /\ resp' = [base(400, "ValidationError")
                           EXCEPT !.validationErrors = SchemaErrors(product),
                                  !.thrown = "ValidationError"]
             /\ UNCHANGED store
        ELSE \E outcome \in SaveOutcomes :
          IF outcome # "none"
          THEN /\ resp' = [base(500, "StoreFailure") EXCEPT !.thrown = outcome]
               /\ UNCHANGED store
          ELSE IF ~Exists(r.id)
          THEN /\ resp' = [base(500, "StoreFailure")
                             EXCEPT !.thrown = "DocumentNotFoundError"]
               /\ UNCHANGED store
          ELSE /\ store' = [store EXCEPT ![r.id] = SaveLoaded(current, product, current)]
               /\ resp' = [base(200, "none")
                             EXCEPT !.updatedFields = UpdatedFields(r.body),
                                    !.data = Persisted(product),
                                    !.persisted = store'[r.id]]
  /\ slot' = [slot EXCEPT ![s] = IdleSlot]
  /\ UNCHANGED <<nextId, first>>

\* PUT /:id from the loaded product on: apply the payload, save, respond.
PutSave(s) ==
  /\ slot[s].pc = "loaded" /\ slot[s].method = "PUT"
  /\ resp = NoResp
  /\ LET r == slot[s]
         product == ApplyUpdates(r.product, r.body)
         ops == <<"findById", "save">>
         base(status, error) ==
           [Response("PUT", r.id, r.cred, r.body, ops, status, error)
              EXCEPT !.loaded = r.product, !.present = Exists(r.id)]
     IN IF SchemaErrors(product) # <<>>
        THEN /\ resp' = [base(putCatch("ValidationError").status,
                              putCatch("ValidationError").error)
                           EXCEPT !.validationErrors = SchemaErrors(product),
                                  !.thrown = "ValidationError"]
             /\ UNCHANGED store
        ELSE \E outcome \in SaveOutcomes :
          IF outcome # "none"
          THEN /\ resp' = [base(putCatch(outcome).status, putCatch(outcome).error)
                             EXCEPT !.thrown = outcome]
               /\ UNCHANGED store
          ELSE IF ~Exists(r.id)
          THEN /\ resp' = [base(putCatch("DocumentNotFoundError").status,
                                putCatch("DocumentNotFoundError").error)
                             EXCEPT !.thrown = "DocumentNotFoundError"]
               /\ UNCHANGED store
          ELSE /\ store' = [store EXCEPT ![r.id] = SaveLoaded(r.product, product, store[r.id])]
               /\ resp' = [base(200, "none")
                             EXCEPT !.updatedFields = UpdatedFields(r.body),
                                    !.data = Persisted(product),
                                    !.persisted = store'[r.id]]
  /\ slot' = [slot EXCEPT ![s] = IdleSlot]
  /\ UNCHANGED <<nextId, first>>

Delete(s, id, cred) ==
  /\ LoadStep(s, "DELETE", id, cred, EmptyBody)

\* DELETE /:id from the loaded product on: findByIdAndDelete, respond with
\* the snapshot taken by findById.
DeleteRemove(s) ==
  /\ slot[s].pc = "loaded" /\ slot[s].method = "DELETE"
  /\ resp = NoResp
  /\ LET r == slot[s]
         ops == <<"findById", "findByIdAndDelete">>
         base(status, error) ==
           [Response("DELETE", r.id, r.cred, r.body, ops, status, error)
              EXCEPT !.loaded = r.product, !.present = Exists(r.id)]
     IN \E outcome \in DeleteOutcomes :
          IF outcome # "none"
          THEN /\ resp' = [base(deleteCatch(outcome).status, deleteCatch(outcome).error)
                             EXCEPT !.thrown = outcome]
               /\ UNCHANGED store
          ELSE /\ store' = [i \in DOMAIN store \ {r.id} |-> store[i]]
               /\ resp' = [base(200, "none") EXCEPT
                             !.data = [id |-> r.product["id"], name |-> r.product["name"],
                                       category |-> r.product["category"]]]
  /\ slot' = [slot EXCEPT ![s] = IdleSlot]
  /\ UNCHANGED <<nextId, first>>

\* The client takes the response off the wire.
Receive ==
  /\ resp # NoResp
  /\ resp' = NoResp
  /\ first' = NoResp
  /\ UNCHANGED <<store, nextId, slot>>

\* The client keeps the response of a successful update to send it again.
Retry ==
  /\ resp # NoResp
  /\ resp.method = "PUT" /\ resp.status = 200
  /\ first = NoResp
  /\ first' = resp
  /\ resp' = NoResp
  /\ UNCHANGED <<store, nextId, slot>>

\* The same update, sent a second time.
PutAgain(s) ==
  /\ first # NoResp
  /\ resp = NoResp
  /\ LoadStep(s, "PUT", first.id, first.cred, first.body)

\* ----------------------------------------------------------------- inputs
With(body, f, v) == [k \in DOMAIN body \cup {f} |-> IF k = f THEN v ELSE body[k]]
Without(body, f) == [k \in DOMAIN body \ {f} |-> body[k]]

\* A payload carrying the five required fields and nothing else.
ValidBody == [f \in Range(requiredFields) |-> "x"]

PartialSpecifications == [k \in {"presentation"} |-> "p"]
EmptySpecifications == [k \in {} |-> ""]
FullSpecifications == [k \in SpecKeys |-> "p"]

Ids == 0..MaxIds

\* The payloads of the interleaved requests.
CreateBodies ==
  {ValidBody,
   Without(ValidBody, "image"),
   With(ValidBody, "name", ""),
   With(ValidBody, "specifications", PartialSpecifications),
   With(ValidBody, "specifications", EmptySpecifications)}

UpdateBodies ==
  {With(EmptyBody, "name", "y"),
   With(EmptyBody, "name", ""),
   With(EmptyBody, "specifications", PartialSpecifications)}

\* A new request takes the lowest free slot (the slots are interchangeable).
FreeSlot(s) == \A t \in Slots : t < s => slot[t].pc # "idle"

Next ==
  \/ \E cred \in Creds : List(cred)
  \/ \E id \in Ids, cred \in Creds : Get(id, cred)
  \/ \E cred \in Creds, body \in CreateBodies : Post(cred, body, MaxIds)
  \/ \E s \in Slots, id \in Ids, cred \in Creds, body \in UpdateBodies :
       FreeSlot(s) /\ Put(s, id, cred, body)
  \/ \E s \in Slots : PutSave(s)
  \/ \E s \in Slots, id \in Ids, cred \in Creds : FreeSlot(s) /\ Delete(s, id, cred)
  \/ \E s \in Slots : DeleteRemove(s)
  \/ Receive

\* Requests of all five kinds, interleaved at their awaits.
Spec == Init /\ [][Next]_vars

\* ------------------------------------------------- payloads, field by field
Merge(a, b) == [k \in DOMAIN a \cup DOMAIN b |-> IF k \in DOMAIN b THEN b[k] ELSE a[k]]

optionalFields == <<"brand", "rating", "features", "applications", "specifications">>

\* What a POST payload may hold in a field: a falsy value and a truthy one.
CreateVals(f) ==
  CASE f = "brand" -> {"", "b"}
    [] f = "rating" -> {0, 3}
    [] f \in {"features", "applications"} -> {<<>>, <<"f">>}
    [] f = "specifications" -> {EmptySpecifications, PartialSpecifications, FullSpecifications}
    [] OTHER -> {"", "x"}

\* Keys of one PUT payload.
MaxKeys == 2

\* What a PUT payload may hold in a field; createdAt is a key outside the
\* allow-list.
UpdateVals(f) ==
  CASE f = "rating" -> {0, 3}
    [] f \in {"features", "applications"} -> {<<>>, <<"g">>}
    [] f = "specifications" -> {EmptySpecifications, PartialSpecifications}
    [] f = "createdAt" -> {0}
    [] OTHER -> {"", "x", "y"}

FieldVals(verb, f) == IF verb = "POST" THEN CreateVals(f) ELSE UpdateVals(f)

\* Every payload of `verb` that gives each field of `fields` one of its
\* values or leaves it out, with at most n fields given.
RECURSIVE BodiesUpTo(_, _, _)
BodiesUpTo(verb, fields, n) ==
  IF fields = <<>> \/ n = 0 THEN {EmptyBody}
  ELSE BodiesUpTo(verb, Tail(fields), n)
       \cup {With(b, Head(fields), v) :
               b \in BodiesUpTo(verb, Tail(fields), n - 1), v \in FieldVals(verb, Head(fields))}

\* POST payloads: every combination of required fields absent, empty or
\* given, and with all of them given every combination of the optional ones.
AllCreateBodies ==
  BodiesUpTo("POST", requiredFields, Len(requiredFields))
  \cup {Merge(ValidBody, opt) :
          opt \in BodiesUpTo("POST", optionalFields, Len(optionalFields))}

\* Creation against the empty store, field by field.
NextCreate ==
  \/ /\ DOMAIN store = {}
     /\ \E cred \in Creds, body \in AllCreateBodies : Post(cred, body, MaxIds)
  \/ Receive

SpecCreate == Init /\ [][NextCreate]_vars

AllUpdateBodies == BodiesUpTo("PUT", allowedUpdates \o <<"createdAt">>, MaxKeys)

\* Products as POST leaves them: from the bare payload, and from one that
\* gives every optional field.
SeedBodies ==
  {ValidBody,
   Merge(ValidBody, [f \in Range(optionalFields) |->
      CASE f = "brand" -> "b"
        [] f = "rating" -> 3
        [] f \in {"features", "applications"} -> <<"f">>
        [] OTHER -> FullSpecifications])}

SeedDocs == {Insert(1, NewProduct(b)) : b \in SeedBodies}

InitUpdate ==
  /\ \E d \in SeedDocs : store = [i \in {1} |-> d]
  /\ nextId = 2
  /\ slot = [s \in Slots |-> IdleSlot]
  /\ resp = NoResp
  /\ first = NoResp

\* One update of a stored product, and the same update sent again.
NextUpdate ==
  \/ /\ resp = NoResp
     /\ 1 \in DOMAIN store /\ store[1] \in SeedDocs
     /\ \E id \in {BadId, 1, 2}, cred \in Creds, body \in AllUpdateBodies : Put(1, id, cred, body)
  \/ PutSave(1)
  \/ Retry
  \/ PutAgain(1)
  \/ Receive

SpecUpdate == InitUpdate /\ [][NextUpdate]_vars

\* Products ever created for the list.
MaxListed == 3

ListIds == 0..MaxListed

\* Creations, one update or removal in flight at a time, and the list.
NextList ==
  \/ \E cred \in Creds : List(cred)
  \/ \E cred \in Creds : Post(cred, ValidBody, MaxListed)
  \/ \E id \in ListIds, cred \in Creds : Put(1, id, cred, With(EmptyBody, "name", "y"))
  \/ PutSave(1)
  \/ \E id \in ListIds, cred \in Creds : Delete(1, id, cred)
  \/ DeleteRemove(1)
  \/ Receive

SpecList == Init /\ [][NextList]_vars

\* ------------------------------------------------------------------ races
\* Payloads of two updates that touch the same two fields: each sets one of
\* them to a new value and the other to the value a fresh product holds.
RaceBodies ==
  {With(With(EmptyBody, "name", "y"), "brand", DefaultBrand),
   With(With(EmptyBody, "name", "x"), "brand", "b"),
   With(EmptyBody, "name", "y"),
   With(EmptyBody, "name", "")}

\* Updates and deletes of one stored product, interleaved at their awaits;
\* the client may keep the answer of a successful update.
NextRace ==
  \/ \E s \in Slots, id \in {BadId, 1}, cred \in Creds, body \in RaceBodies :
       FreeSlot(s) /\ Put(s, id, cred, body)
  \/ \E s \in Slots : PutSave(s)
  \/ \E s \in Slots, id \in {BadId, 1}, cred \in Creds : FreeSlot(s) /\ Delete(s, id, cred)
  \/ \E s \in Slots : DeleteRemove(s)
  \/ Retry
  \/ Receive

SpecRace == InitUpdate /\ [][NextRace]_vars

\* ------------------------------------------------------------- properties
\* A step that sends a response.
Responded == resp = NoResp /\ resp' # NoResp

AuthFailure(r) ==
  r.status \in {401, 403} /\ r.error \in {"Unauthenticated", "InvalidCredential"}

\* C1: a create, update or delete request without a valid bearer credential
\* is answered with an authentication failure, performs no store operation
\* and leaves the store as it was (nor is any such request ever between its
\* findById and its write); list and get-by-id are never answered with an
\* authentication failure, whatever the credential.
C1_AuthGate ==
  [][/\ \A s \in Slots : slot'[s].pc = "loaded" => slot'[s].cred = "valid"
     /\ Responded =>
          /\ (resp'.method \in {"POST", "PUT", "DELETE"} /\ resp'.cred # "valid")
               => /\ AuthFailure(resp')
                  /\ resp'.ops = <<>>
                  /\ store' = store /\ nextId' = nextId
          /\ resp'.method \in {"LIST", "GET"} => ~AuthFailure(resp')]_vars

\* A delete without a credential was rejected while a product is stored.
C1_Witness ==
  /\ resp # NoResp
  /\ resp.method = "DELETE" /\ resp.cred = "absent" /\ resp.status = 401
  /\ DOMAIN store # {}

\* The required fields a payload leaves out or gives as the empty string.
AbsentOrEmpty(body) ==
  {f \in {"name", "category", "description", "image", "fullDescription"} :
     f \notin DOMAIN body \/ body[f] = ""}

\* C2: an authenticated create whose payload misses a required field (absent
\* or falsy) is answered 400 MissingFields, missingFields being as a set
\* exactly those fields, and inserts nothing.
C2_MissingFields ==
  [][(/\ Responded
      /\ resp'.method = "POST" /\ resp'.cred = "valid"
      /\ AbsentOrEmpty(resp'.body) # {})
     => /\ resp'.status = 400 /\ resp'.error = "MissingFields"
        /\ Range(resp'.missingFields) = AbsentOrEmpty(resp'.body)
        /\ resp'.ops = <<>>
        /\ store' = store /\ nextId' = nextId]_vars

\* A payload with name empty and image absent was rejected, naming both.
C2_Witness ==
  /\ resp # NoResp
  /\ resp.method = "POST" /\ resp.status = 400
  /\ resp.missingFields = <<"name", "image">>
  /\ "name" \in DOMAIN resp.body /\ "image" \notin DOMAIN resp.body

\* The value the entity carries for a supplied field: the supplied value, a
\* specifications record with its absent keys as the empty string.
Carries(f, held, v) ==
  IF f = "specifications"
  THEN /\ DOMAIN held = SpecKeys
       /\ \A k \in SpecKeys : held[k] = IF k \in DOMAIN v THEN v[k] ELSE ""
  ELSE held = v

\* C3: an authenticated create with all five required fields given (and a
\* store that accepts the insert) is answered 201, and the returned and
\* persisted entity carries the documented default for each optional field
\* left out and the supplied value for each optional field given.
C3_CreatedWithDefaults ==
  (/\ resp # NoResp
   /\ resp.method = "POST" /\ resp.cred = "valid"
   /\ AbsentOrEmpty(resp.body) = {}
   /\ resp.thrown = "none")
  => /\ resp.status = 201
     /\ resp.persisted = resp.data
     /\ \A f \in {"brand", "rating", "features", "applications", "specifications"} :
          IF f \in DOMAIN resp.body
          THEN Carries(f, resp.data[f], resp.body[f])
          ELSE resp.data[f] =
                 CASE f = "brand" -> "Fester"
                   [] f = "rating" -> 5
                   [] f = "specifications" ->
                        [presentation |-> "", coverage |-> "", dryingTime |-> "", colors |-> ""]
                   [] OTHER -> <<>>

\* C4: a successful update changes, of the stored product, exactly the
\* allow-listed fields whose key the payload holds, each to the supplied
\* value; every other field, the id, and every other product stay as they
\* were, and updatedFields is the set of allow-listed keys of the payload.
C4_PartialUpdate ==
  [][(Responded /\ resp'.method = "PUT" /\ resp'.status = 200)
     => LET id == resp'.id
            given == DOMAIN resp'.body \cap Range(allowedUpdates)
        IN /\ DOMAIN store' = DOMAIN store
           /\ \A i \in DOMAIN store \ {id} : store'[i] = store[i]
           /\ \A f \in DocFields :
                IF f \in given
                THEN Carries(f, store'[id][f], resp'.body[f])
                ELSE store'[id][f] = store[id][f]
           /\ Range(resp'.updatedFields) = given
           /\ resp'.data = store'[id]]_vars

\* The update {name: "y"} of a product of brand "b" went through.
C4_Witness ==
  /\ resp # NoResp
  /\ resp.method = "PUT" /\ resp.status = 200
  /\ DOMAIN resp.body = {"name"} /\ resp.body["name"] = "y"
  /\ resp.loaded["brand"] = "b" /\ resp.loaded["name"] = "x"
  /\ store[resp.id]["brand"] = "b" /\ store[resp.id]["name"] = "y"

\* C5: get-by-id, update and delete (past the gate) with a malformed
\* identifier are answered 400 MalformedIdentifier echoing the id, never 404
\* or 500, whatever the payload, and leave the store as it was; no request
\* with a malformed identifier gets past its findById.
C5_MalformedIdentifier ==
  [][/\ \A s \in Slots : slot'[s].pc = "loaded" => slot'[s].id # BadId
     /\ (/\ Responded
         /\ resp'.method \in {"GET", "PUT", "DELETE"}
         /\ ~AuthFailure(resp')
         /\ resp'.id = BadId)
        => /\ resp'.status = 400 /\ resp'.error = "MalformedIdentifier"
           /\ resp'.echo = BadId
           /\ store' = store]_vars

\* An update with a malformed identifier and a payload was answered 400
\* while a product is stored.
C5_Witness ==
  /\ resp # NoResp
  /\ resp.method = "PUT" /\ resp.id = BadId /\ resp.status = 400
  /\ DOMAIN resp.body # {}
  /\ DOMAIN store # {}

\* A response of get-by-id, update or delete (past the gate) for a
\* well-formed identifier that matches no product as the step runs, the
\* store itself not failing.
AnswersForAbsent ==
  /\ Responded
  /\ resp'.method \in {"GET", "PUT", "DELETE"}
  /\ ~AuthFailure(resp')
  /\ resp'.id # BadId /\ resp'.id \notin DOMAIN store
  /\ resp'.thrown \notin {"StoreError", "DuplicateKey"}

\* C6 as claimed: get-by-id, update and delete on a well-formed identifier
\* that matches no product as their findById runs answer 404 NotFound
\* echoing the id, also when the product was removed by an earlier or
\* concurrently completed delete; and no update or delete reports 200 for a
\* product that is gone when its write or remove step runs.
C6_AlwaysNotFound ==
  [][AnswersForAbsent
     => IF resp'.ops = <<"findById">>
        THEN resp'.status = 404 /\ resp'.error = "NotFound" /\ resp'.echo = resp'.id
        ELSE resp'.status # 200]_vars

\* C6 as amended: when the identifier matches no product as the handler's
\* findById runs, the answer is 404 NotFound echoing the id and the store is
\* left as it was; an update never answers 200 for a product that is gone
\* when its save runs, but a delete whose product another request removed
\* between its findById and its remove step still answers 200.
C6_NotFoundAtLoad ==
  [][AnswersForAbsent
     => /\ store' = store
        /\ IF resp'.ops = <<"findById">>
           THEN resp'.status = 404 /\ resp'.error = "NotFound" /\ resp'.echo = resp'.id
           ELSE IF resp'.method = "DELETE" THEN resp'.status = 200
           ELSE resp'.status # 200]_vars

\* An update of a product that an earlier delete removed was answered 404.
C6_Witness ==
  /\ resp # NoResp
  /\ resp.method = "PUT" /\ resp.status = 404
  /\ resp.id # BadId /\ resp.id < nextId /\ resp.echo = resp.id

\* C7: every stored product has non-empty name, category, description,
\* image and fullDescription.
C7_RequiredNonEmpty ==
  \A i \in DOMAIN store :
    \A f \in {"name", "category", "description", "image", "fullDescription"} :
      store[i][f] # ""

\* An update setting name to the empty string was refused and the stored
\* product keeps its name.
C7_Witness ==
  /\ resp # NoResp
  /\ resp.method = "PUT" /\ resp.status = 400 /\ resp.error = "ValidationError"
  /\ resp.body["name"] = ""
  /\ resp.id \in DOMAIN store /\ store[resp.id]["name"] # ""

\* C8: every stored product has a specifications record with exactly the
\* keys presentation, coverage, dryingTime and colors.
C8_SpecificationsShape ==
  \A i \in DOMAIN store :
    DOMAIN store[i]["specifications"] = {"presentation", "coverage", "dryingTime", "colors"}

\* An update that supplied specifications with one key went through.
C8_Witness ==
  /\ resp # NoResp
  /\ resp.method = "PUT" /\ resp.status = 200
  /\ "specifications" \in DOMAIN resp.body
  /\ DOMAIN resp.body["specifications"] = {"presentation"}
  /\ resp.id \in DOMAIN store
  /\ store[resp.id]["specifications"]["presentation"] = "p"
  /\ store[resp.id]["specifications"]["colors"] = ""

\* C9: the same update sent twice in succession, the store accepting both
\* saves: the second is answered 200 like the first, with the same
\* updatedFields, and leaves the same stored entity as the first did.
C9_Idempotent ==
  (/\ first # NoResp
   /\ resp # NoResp
   /\ resp.thrown \notin {"StoreError", "DuplicateKey"})
  => /\ resp.method = "PUT" /\ resp.status = 200
     /\ resp.id = first.id /\ resp.body = first.body
     /\ resp.updatedFields = first.updatedFields
     /\ resp.persisted = first.persisted
     /\ resp.data = first.data
     /\ store[resp.id] = first.persisted

\* A two-key update that changed the product was sent again and answered.
C9_Witness ==
  /\ first # NoResp
  /\ resp # NoResp
  /\ resp.status = 200
  /\ Cardinality(DOMAIN resp.body) = 2
  /\ first.loaded # first.persisted

\* C10: the list holds exactly the stored products, as stored, most recently
\* created first, and count is their number.
C10_ListNewestFirst ==
  (resp # NoResp /\ resp.method = "LIST" /\ resp.status = 200)
  => LET products == resp.list
     IN /\ resp.count = Len(products)
        /\ {products[i]["id"] : i \in DOMAIN products} = DOMAIN store
        /\ Len(products) = Cardinality(DOMAIN store)
        /\ \A i \in DOMAIN products : products[i] = store[products[i]["id"]]
        /\ \A i, j \in DOMAIN products :
             i < j => /\ products[i]["createdAt"] > products[j]["createdAt"]
                      /\ products[i]["id"] > products[j]["id"]

\* Three products were created, the first was then updated: the list is
\* [C, B, A] with A still last.
C10_Witness ==
  /\ resp # NoResp
  /\ resp.method = "LIST" /\ resp.status = 200
  /\ resp.count = 3
  /\ resp.list[1]["id"] = 3 /\ resp.list[2]["id"] = 2 /\ resp.list[3]["id"] = 1
  /\ resp.list[3]["name"] = "y"

\* A step in which the update handler answers from one of its catch branches.
UpdateFailed ==
  /\ Responded
  /\ resp'.method = "PUT"
  /\ ~AuthFailure(resp')
  /\ resp'.thrown # "none"

\* C11: the update handler maps the failures of the store as create does: a
\* field-validation rejection is answered 400 ValidationError listing every
\* offending field, a uniqueness violation raised by the store during the
\* update is answered 400 DuplicateEntity (not 500 StoreFailure), a malformed
\* identifier 400 MalformedIdentifier, and only a failure of no classified
\* kind is answered 500 StoreFailure.
C11_UpdateFailureMapping ==
  [][UpdateFailed
     => CASE resp'.thrown = "ValidationError" ->
               /\ resp'.status = 400 /\ resp'.error = "ValidationError"
               /\ resp'.validationErrors =
                    SchemaErrors(ApplyUpdates(resp'.loaded, resp'.body))
               /\ resp'.validationErrors # <<>>
          [] resp'.thrown = "DuplicateKey" ->
               resp'.status = 400 /\ resp'.error = "DuplicateEntity"
          [] resp'.thrown = "CastError" ->
               resp'.status = 400 /\ resp'.error = "MalformedIdentifier"
          [] OTHER ->
               resp'.status = 500 /\ resp'.error = "StoreFailure"]_vars

\* The store operations of an update or a delete: one load, then at most
\* one write.
WriteOf(method) == IF method = "PUT" THEN "save" ELSE "findByIdAndDelete"

\* The entity after applying the payload a and then the payload b to doc,
\* each update running alone.
OneAfterTheOther(doc, a, b) ==
  Persisted(ApplyUpdates(Persisted(ApplyUpdates(doc, a)), b))

\* C12: an update or a delete performs one load followed by at most one
\* write or remove, as separate steps with no lock, version check or retry:
\* a step that answers starts no load again, and a successful save is
\* computed from the product the request loaded, whatever the store holds
\* by then: it writes the supplied value of each allow-listed field of the
\* payload that differs from the loaded one and leaves every other field as
\* the store holds it.  (That two updates can lose one is the state
\* C12_Witness.)
C12_ReadModifyWrite ==
  [][(/\ Responded
      /\ resp'.method \in {"PUT", "DELETE"}
      /\ ~AuthFailure(resp'))
     => /\ resp'.ops \in {<<"findById">>, <<"findById", WriteOf(resp'.method)>>}
        /\ \A s \in Slots : slot'[s].pc = "loaded" => slot'[s] = slot[s]
        /\ (resp'.method = "PUT" /\ resp'.status = 200)
           => /\ resp'.id \in DOMAIN store /\ resp'.id \in DOMAIN store'
              /\ \A f \in DocFields :
                   store'[resp'.id][f] =
                     IF /\ f \in Range(allowedUpdates)
                        /\ Has(resp'.body, f)
                        /\ SchemaCast(f, resp'.body[f]) # resp'.loaded[f]
                     THEN SchemaCast(f, resp'.body[f])
                     ELSE store[resp'.id][f]]_vars

\* A lost update: two updates of the same product loaded the same entity,
\* the first saved and changed it, the second saved after it, both were
\* answered 200, and the stored entity is not what the two updates give one
\* after the other, in either order.
C12_Witness ==
  /\ first # NoResp /\ resp # NoResp
  /\ first.method = "PUT" /\ first.status = 200
  /\ resp.method = "PUT" /\ resp.status = 200
  /\ resp.id = first.id
  /\ resp.loaded = first.loaded
  /\ first.persisted # first.loaded
  /\ resp.id \in DOMAIN store
  /\ store[resp.id] = resp.persisted
  /\ resp.persisted # OneAfterTheOther(first.loaded, first.body, resp.body)
  /\ resp.persisted # OneAfterTheOther(first.loaded, resp.body, first.body)

====
